---------------------------- MODULE Spec2Model ----------------------------
(***************************************************************************)
(* A model of the PubChem toxicology / GHS retrievers.                     *)
(*                                                                         *)
(*   pipeline A  src/get_toxinfo_by_cas6.py   (fetch_url, get_pubchem_cid, *)
(*               extract_tox_data, process_cas_number,                     *)
(*               get_tox_data_for_cas_numbers)                             *)
(*   pipeline B  src/pubchem_hazard_scraper.py (cas_to_cid,                *)
(*               get_ghs_classification, process_row, main)                *)
(*                                                                         *)
(* Python values are modelled as follows.  A str is a sequence of          *)
(* one-character strings wherever the code looks inside it (headings, the  *)
(* GHS body); a dict is a function whose DOMAIN is its key set, so that    *)
(* `k in d` is  k \in DOMAIN d ; a list is a sequence; None is the record  *)
(* None.  A call that can raise returns [raised, exc] or [raised, val].    *)
(* The server is the environment: its answer to each GET is an input.      *)
(***************************************************************************)
EXTENDS Integers, Sequences, FiniteSets, TLC

VARIABLES
    mode,        \* which program / function this behaviour exercises
    pc,          \* "call" before the function under study has run, "done" after
    data,        \* extract_tox_data: the RawDocument handed to it
    tox_data,    \* extract_tox_data: the mapping it returned
    call,        \* one fetch-with-retry call: its function, budget and the server's answers
    outcome,     \* what that call returned, the GETs it issued, the sleeps it took
    text,        \* the body of a 200 answer to the GHS request
    ghs,         \* the (hazards, precautions) pair extracted from text
    cas_numbers, \* the input identifiers (pipeline A) / the CAS column (pipeline B)
    task,        \* per input position: the coroutine's position and locals
    done_order,  \* positions of the finished coroutines, in completion order
    main_pc,     \* position of the orchestrator coroutine
    batch_size,  \* pipeline B: main's batch_size
    row_i,       \* pipeline B: rows consumed so far by `for idx, row in df.iterrows()`
    tasks,       \* pipeline B: main's `tasks` list (row positions)
    results,     \* pipeline A: the list gather returned; pipeline B: main's `results`
    df,          \* pipeline B: the Hazards / Precautions columns of the table
    batches,     \* pipeline B: sizes of the batches awaited so far
    pauses       \* pipeline B: asyncio.sleep(pause) calls so far, with the batch count then

vars == <<mode, pc, data, tox_data, call, outcome, text, ghs, cas_numbers, task,
          done_order, main_pc, batch_size, row_i, tasks, results, df, batches, pauses>>

toxVars   == <<data, tox_data>>
fetchVars == <<call, outcome>>
ghsVars   == <<text, ghs>>
pipeVars  == <<cas_numbers, task, done_order, main_pc, batch_size, row_i, tasks,
               results, df, batches, pauses>>

None  == [none |-> TRUE]
Unset == [unset |-> TRUE]

-----------------------------------------------------------------------------
(* Strings as character sequences *)

UpperCase == <<"A","B","C","D","E","F","G","H","I","J","K","L","M",
               "N","O","P","Q","R","S","T","U","V","W","X","Y","Z">>
LowerCase == <<"a","b","c","d","e","f","g","h","i","j","k","l","m",
               "n","o","p","q","r","s","t","u","v","w","x","y","z">>
Digits    == <<"0","1","2","3","4","5","6","7","8","9">>

\* code-point order of the characters the model uses
AsciiOrder == <<" ", ",">> \o Digits \o UpperCase \o LowerCase

Ord(c) == CHOOSE i \in 1..Len(AsciiOrder) : AsciiOrder[i] = c

LowerChar(c) ==
    IF \E i \in 1..26 : UpperCase[i] = c
    THEN LowerCase[CHOOSE i \in 1..26 : UpperCase[i] = c]
    ELSE c

\* str.lower()
Lower(s) == [i \in 1..Len(s) |-> LowerChar(s[i])]

\* `sub in s`
Contains(s, sub) ==
    \E i \in 0..(Len(s) - Len(sub)) : SubSeq(s, i + 1, i + Len(sub)) = sub

RECURSIVE Concat(_)
Concat(ss) == IF ss = <<>> THEN <<>> ELSE Head(ss) \o Concat(Tail(ss))

-----------------------------------------------------------------------------
(* extract_tox_data   src/get_toxinfo_by_cas6.py:98-120 *)

tox_keywords ==
    << <<"t","o","x">>,
       <<"s","a","f","e","t","y">>,
       <<"h","a","z","a","r","d">>,
       <<"h","e","a","l","t","h">>,
       <<"e","x","p","o","s","u","r","e">>,
       <<"r","i","s","k">>,
       <<"c","a","r","c","i","n","o","g","e","n">> >>

\* any(keyword in heading.lower() for keyword in tox_keywords)
MatchesKeyword(heading) ==
    \E k \in 1..Len(tox_keywords) : Contains(Lower(heading), tox_keywords[k])

\* [item['String'] for item in info['Value']['StringWithMarkup']], over the
\* infos that have 'Value' and 'StringWithMarkup'
RECURSIVE InfoStrings(_)
InfoStrings(infos) ==
    IF infos = <<>> THEN <<>>
    ELSE LET info == Head(infos)
             here == IF "Value" \in DOMAIN info
                        /\ "StringWithMarkup" \in DOMAIN info.Value
                     THEN [j \in 1..Len(info.Value.StringWithMarkup) |->
                              info.Value.StringWithMarkup[j].String]
                     ELSE <<>>
         IN  here \o InfoStrings(Tail(infos))

\* tox_data[heading] = value
DictSet(d, k, v) == [x \in DOMAIN d \cup {k} |-> IF x = k THEN v ELSE d[x]]

EmptyDict == [x \in {} |-> <<>>]

\* The children a visit of `section` goes on to: those of a section that
\* matched (line 113 is inside the `if` of line 106).
SubsectionsVisited(section, matched) ==
    IF matched /\ "Section" \in DOMAIN section THEN section.Section ELSE <<>>

\* process_section(section), threading the closure variable tox_data
RECURSIVE process_section(_, _)
RECURSIVE process_sections(_, _)
process_section(acc, section) ==
    LET matched == "TOCHeading" \in DOMAIN section
                   /\ MatchesKeyword(section.TOCHeading)
        acc1 == IF matched
                THEN DictSet(acc, section.TOCHeading,
                             IF "Information" \in DOMAIN section
                             THEN InfoStrings(section.Information) ELSE <<>>)
                ELSE acc
    IN  process_sections(acc1, SubsectionsVisited(section, matched))

process_sections(acc, sections) ==
    IF sections = <<>> THEN acc
    ELSE process_sections(process_section(acc, Head(sections)), Tail(sections))

extract_tox_data(d) ==
    IF "Record" \notin DOMAIN d \/ "Section" \notin DOMAIN d.Record
    THEN EmptyDict
    ELSE process_sections(EmptyDict, d.Record.Section)


-----------------------------------------------------------------------------
(* The server's answers.  An answer to one GET is an HTTP response         *)
(* [status, body] or a transport exception [exc] (connection error,        *)
(* timeout).  A body is [json |-> document], [garbage |-> TRUE] (text that *)
(* json.loads rejects) or [text |-> characters] (the GHS fragment).        *)

DefaultRetries == 3
DefaultDelay   == 1

PyInt(n) == [int |-> n]

Returned(v) == [raised |-> FALSE, val |-> v]
Raised(e)   == [raised |-> TRUE, exc |-> e]

IsExc(r) == "exc" \in DOMAIN r

\* json.loads(text) / await resp.json()
ParseJson(body) ==
    IF "json" \in DOMAIN body THEN Returned(body.json) ELSE Raised("JSONDecodeError")

RECURSIVE Pow2(_)
Pow2(n) == IF n = 0 THEN 1 ELSE 2 * Pow2(n - 1)

\* f"HTTP error {response.status}"
HttpErrorText(status) ==
    CASE status = 404 -> "HTTP error 404"
      [] status = 500 -> "HTTP error 500"
      [] OTHER        -> "HTTP error"

\* What a retry loop hands back: its return value, the GETs it issued and
\* the asyncio.sleep durations it awaited, in order.
Trace(ret, gets, sleeps) == [ret |-> ret, gets |-> gets, sleeps |-> sleeps]

-----------------------------------------------------------------------------
(* fetch_url   src/get_toxinfo_by_cas6.py:14-37 *)

\* the sleep of lines 29 and 37
BackoffA(attempt) == Pow2(attempt)

\* what the call returns once `for attempt in range(retries)` is used up:
\* the function ends without a return statement
FetchUrlExhausted == None

\* the `else` branch of lines 30-32
FetchUrlOtherStatus(attempt, resps, retries, sleeps) ==
    Trace([error |-> HttpErrorText(resps[attempt + 1].status)], attempt + 1, sleeps)

RECURSIVE fetch_url_from(_, _, _, _)
fetch_url_from(attempt, resps, retries, sleeps) ==
    IF attempt >= retries THEN Trace(FetchUrlExhausted, attempt, sleeps)
    ELSE
      LET r      == resps[attempt + 1]
          parsed == ParseJson(r.body)
          \* the except branch of lines 33-37, for the exception e
          except(e) ==
              IF attempt = retries - 1
              THEN Trace([error |-> e], attempt + 1, sleeps)
              ELSE fetch_url_from(attempt + 1, resps, retries,
                                  Append(sleeps, BackoffA(attempt)))
      IN  IF IsExc(r) THEN except(r.exc)
          ELSE IF r.status = 200
               THEN IF parsed.raised THEN except(parsed.exc)
                    ELSE Trace(parsed.val, attempt + 1, sleeps)
          ELSE IF r.status = 503
               THEN fetch_url_from(attempt + 1, resps, retries,
                                   Append(sleeps, BackoffA(attempt)))
          ELSE FetchUrlOtherStatus(attempt, resps, retries, sleeps)

fetch_url(resps, retries) == fetch_url_from(0, resps, retries, <<>>)

-----------------------------------------------------------------------------
(* get_pubchem_cid   src/get_toxinfo_by_cas6.py:39-45 *)

\* lines 42-45, on the value fetch_url returned.  `in` on None raises
\* TypeError; [0] on an empty list raises IndexError.
CidOfData(d) ==
    IF d = None THEN Raised("TypeError")
    ELSE IF "IdentifierList" \in DOMAIN d /\ "CID" \in DOMAIN d.IdentifierList
         THEN IF Len(d.IdentifierList.CID) = 0 THEN Raised("IndexError")
              ELSE Returned(PyInt(d.IdentifierList.CID[1]))
         ELSE Returned(None)

get_pubchem_cid(resps) ==
    LET t == fetch_url(resps, DefaultRetries)
    IN  Trace(CidOfData(t.ret), t.gets, t.sleeps)

-----------------------------------------------------------------------------
(* cas_to_cid   src/pubchem_hazard_scraper.py:14-32 *)

\* Variant: the spec's exponential backoff in pipeline B
BackoffB_Exponential(attempt, delay) == delay * Pow2(attempt)

\* the sleep of lines 31 and 54
BackoffB(attempt, delay) == delay

\* Variant: an `else: return` after the 503 branch
OtherStatusB_Returns(again, stop) == stop

\* A status that is neither 200 nor 404 (503, which is logged, and every
\* other one) matches no returning branch: control reaches the sleep of
\* line 31 / 54 and the loop goes round again.  `again` is that
\* continuation, `stop` would be an immediate return.
OtherStatusB(again, stop) == again

RECURSIVE cas_to_cid_from(_, _, _, _, _)
cas_to_cid_from(attempt, resps, retries, delay, sleeps) ==
    IF attempt >= retries THEN Trace(None, attempt, sleeps)
    ELSE
      LET r      == resps[attempt + 1]
          parsed == ParseJson(r.body)
          again  == cas_to_cid_from(attempt + 1, resps, retries, delay,
                                    Append(sleeps, BackoffB(attempt, delay)))
      IN  IF IsExc(r) THEN again
          ELSE IF r.status = 200
               THEN IF parsed.raised THEN again
                    ELSE IF "IdentifierList" \in DOMAIN parsed.val
                            /\ "CID" \in DOMAIN parsed.val.IdentifierList
                         THEN IF Len(parsed.val.IdentifierList.CID) = 0
                              THEN again     \* IndexError, caught at line 29
                              ELSE Trace(PyInt(parsed.val.IdentifierList.CID[1]),
                                         attempt + 1, sleeps)
                         ELSE Trace(None, attempt + 1, sleeps)
          ELSE IF r.status = 404 THEN Trace(None, attempt + 1, sleeps)
          ELSE OtherStatusB(again, Trace(None, attempt + 1, sleeps))

cas_to_cid(resps, retries, delay) == cas_to_cid_from(0, resps, retries, delay, <<>>)

-----------------------------------------------------------------------------
(* get_ghs_classification   src/pubchem_hazard_scraper.py:35-55 *)

NoDataFound == <<"N","o"," ","d","a","t","a"," ","f","o","u","n","d">>

IsDigit(c) == \E i \in 1..Len(Digits) : Digits[i] = c

\* re.findall(letter + r"\d{3}", txt): the matches from position i on, found
\* left to right, the scan resuming after each match
RECURSIVE FindAllFrom(_, _, _)
FindAllFrom(letter, txt, i) ==
    IF i + 3 > Len(txt) THEN <<>>
    ELSE IF txt[i] = letter /\ IsDigit(txt[i+1]) /\ IsDigit(txt[i+2]) /\ IsDigit(txt[i+3])
         THEN <<SubSeq(txt, i, i + 3)>> \o FindAllFrom(letter, txt, i + 4)
         ELSE FindAllFrom(letter, txt, i + 1)

FindAll(letter, txt) == FindAllFrom(letter, txt, 1)

\* a < b for str: by code point, a proper prefix first
RECURSIVE StrLess(_, _)
StrLess(a, b) ==
    IF b = <<>> THEN FALSE
    ELSE IF a = <<>> THEN TRUE
    ELSE IF Head(a) = Head(b) THEN StrLess(Tail(a), Tail(b))
    ELSE Ord(Head(a)) < Ord(Head(b))

Range(f) == {f[i] : i \in DOMAIN f}

\* sorted(S) for a set of str
RECURSIVE SortedStrs(_)
SortedStrs(S) ==
    IF S = {} THEN <<>>
    ELSE LET m == CHOOSE x \in S : \A y \in S : y = x \/ StrLess(x, y)
         IN  <<m>> \o SortedStrs(S \ {m})

\* ",".join(parts)
RECURSIVE JoinComma(_)
JoinComma(parts) ==
    IF parts = <<>> THEN <<>>
    ELSE IF Len(parts) = 1 THEN parts[1]
    ELSE parts[1] \o <<",">> \o JoinComma(Tail(parts))

\* Variant: the matches as found, neither deduplicated nor sorted
SortedSet_AsFound(found) == found

\* sorted(set(found))
SortedSet(found) == SortedStrs(Range(found))

\* lines 43-47, on the text of a 200 response
GhsOfText(txt) ==
    IF Contains(txt, NoDataFound) THEN <<NoDataFound, NoDataFound>>
    ELSE <<JoinComma(SortedSet(FindAll("H", txt))),
           JoinComma(SortedSet(FindAll("P", txt)))>>

\* await resp.text()
ReadText(body) ==
    IF "text" \in DOMAIN body THEN Returned(body.text) ELSE Raised("UnicodeDecodeError")

RECURSIVE get_ghs_from(_, _, _, _, _)
get_ghs_from(attempt, resps, retries, delay, sleeps) ==
    IF attempt >= retries THEN Trace(<< <<>>, <<>> >>, attempt, sleeps)
    ELSE
      LET r     == resps[attempt + 1]
          txt   == ReadText(r.body)
          again == get_ghs_from(attempt + 1, resps, retries, delay,
                                Append(sleeps, BackoffB(attempt, delay)))
      IN  IF IsExc(r) THEN again
          ELSE IF r.status = 200
               THEN IF txt.raised THEN again
                    ELSE Trace(GhsOfText(txt.val), attempt + 1, sleeps)
          ELSE IF r.status = 404 THEN Trace(<< <<>>, <<>> >>, attempt + 1, sleeps)
          ELSE OtherStatusB(again, Trace(<< <<>>, <<>> >>, attempt + 1, sleeps))

get_ghs_classification(resps, retries, delay) ==
    get_ghs_from(0, resps, retries, delay, <<>>)

-----------------------------------------------------------------------------
(* get_iupac_and_smiles, get_names_and_synonyms, get_literature_references *)
(* src/get_toxinfo_by_cas6.py:51-96, each on the value fetch_url returned  *)

H_NamesAndIdentifiers == <<"N","a","m","e","s"," ","a","n","d"," ","I","d","e","n","t","i","f","i","e","r","s">>
H_ComputedDescriptors == <<"C","o","m","p","u","t","e","d"," ","D","e","s","c","r","i","p","t","o","r","s">>
H_Synonyms            == <<"S","y","n","o","n","y","m","s">>
H_DiseaseAndRefs      == <<"D","i","s","e","a","s","e"," ","a","n","d"," ","R","e","f","e","r","e","n","c","e","s">>
H_NatureJournalRefs   == <<"N","a","t","u","r","e"," ","J","o","u","r","n","a","l"," ","R","e","f","e","r","e","n","c","e","s">>
H_SpringerNatureRefs  == <<"S","p","r","i","n","g","e","r"," ","N","a","t","u","r","e"," ","R","e","f","e","r","e","n","c","e","s">>
H_OtherSafetyInfo     == <<"O","t","h","e","r"," ","S","a","f","e","t","y"," ","I","n","f","o","r","m","a","t","i","o","n">>

\* d.get(k, default)
Get(d, k, default) == IF k \in DOMAIN d THEN d[k] ELSE default

\* lines 54-60
IupacAndSmilesOf(d) ==
    IF d = None THEN Raised("TypeError")
    ELSE IF "PropertyTable" \in DOMAIN d /\ "Properties" \in DOMAIN d.PropertyTable
         THEN IF Len(d.PropertyTable.Properties) = 0 THEN Raised("IndexError")
              ELSE LET properties == d.PropertyTable.Properties[1]
                   IN  Returned([IUPAC  |-> Get(properties, "IUPACName", "N/A"),
                                 SMILES |-> Get(properties, "CanonicalSMILES", "N/A")])
         ELSE Returned([IUPAC |-> "N/A", SMILES |-> "N/A"])

HeadingIs(section, h) == "TOCHeading" \in DOMAIN section /\ section.TOCHeading = h

\* the strings of the infos named `name`: all of each (extend, line 77) or
\* the first of each (append, line 73)
RECURSIVE NamedStrings(_, _, _)
NamedStrings(infos, name, firstOnly) ==
    IF infos = <<>> THEN <<>>
    ELSE LET info == Head(infos)
             swm  == info.Value.StringWithMarkup
             here == IF "Name" \in DOMAIN info /\ info.Name = name
                     THEN IF firstOnly THEN <<swm[1].String>>
                          ELSE [j \in 1..Len(swm) |-> swm[j].String]
                     ELSE <<>>
         IN  here \o NamedStrings(Tail(infos), name, firstOnly)

\* lines 69-77: the subsections of the 'Names and Identifiers' section
RECURSIVE NamesFromSubsections(_, _)
NamesFromSubsections(acc, subsections) ==
    IF subsections = <<>> THEN acc
    ELSE LET sub   == Head(subsections)
             infos == Get(sub, "Information", <<>>)
             acc1  == IF HeadingIs(sub, H_ComputedDescriptors)
                      THEN [acc EXCEPT !.Names = @ \o NamedStrings(infos, "IUPAC Name", TRUE)]
                      ELSE IF HeadingIs(sub, H_Synonyms)
                      THEN [acc EXCEPT !.Synonyms = @ \o NamedStrings(infos, "Synonym", FALSE)]
                      ELSE acc
         IN  NamesFromSubsections(acc1, Tail(subsections))

\* lines 67-78: the first 'Names and Identifiers' section ends the scan
RECURSIVE NamesFromSections(_)
NamesFromSections(sections) ==
    IF sections = <<>> THEN [Names |-> <<>>, Synonyms |-> <<>>]
    ELSE IF HeadingIs(Head(sections), H_NamesAndIdentifiers)
         THEN NamesFromSubsections([Names |-> <<>>, Synonyms |-> <<>>],
                                   Get(Head(sections), "Section", <<>>))
         ELSE NamesFromSections(Tail(sections))

\* lines 65-79
NamesAndSynonymsOf(d) ==
    IF d = None THEN Raised("TypeError")
    ELSE IF "Record" \in DOMAIN d /\ "Section" \in DOMAIN d.Record
         THEN Returned(NamesFromSections(d.Record.Section))
         ELSE Returned([Names |-> <<>>, Synonyms |-> <<>>])

ReferenceHeadings ==
    {H_DiseaseAndRefs, H_NatureJournalRefs, H_SpringerNatureRefs, H_OtherSafetyInfo}

\* lines 91-95
RECURSIVE ReferencesFromSections(_, _)
ReferencesFromSections(references, sections) ==
    IF sections = <<>> THEN references
    ELSE LET section == Head(sections)
             refs1 == IF "TOCHeading" \in DOMAIN section
                         /\ section.TOCHeading \in ReferenceHeadings
                      THEN [references EXCEPT ![section.TOCHeading] =
                               @ \o InfoStrings(Get(section, "Information", <<>>))]
                      ELSE references
         IN  ReferencesFromSections(refs1, Tail(sections))

\* lines 84-96
LiteratureReferencesOf(d) ==
    IF d = None THEN Raised("TypeError")
    ELSE IF "Record" \in DOMAIN d /\ "Section" \in DOMAIN d.Record
         THEN Returned(ReferencesFromSections([h \in ReferenceHeadings |-> <<>>],
                                              d.Record.Section))
         ELSE Returned([h \in ReferenceHeadings |-> <<>>])

-----------------------------------------------------------------------------
(* Documents handed to extract_tox_data: the server's JSON, built section   *)
(* by section in document order.                                            *)

MaxSections == 3

H_Toxicity == <<"T","o","x","i","c","i","t","y">>
H_Hazards  == <<"G","H","S"," ","H","A","Z","A","R","D","S">>
H_Names    == <<"N","a","m","e","s">>

Info(s) == [Name |-> "Text", Value |-> [StringWithMarkup |-> <<[String |-> s]>>]]

\* a section as it arrives before any child section is attached to it
LeafSections ==
    { [TOCHeading |-> H_Toxicity, Information |-> <<Info("LD50")>>],
      [TOCHeading |-> H_Hazards],
      [TOCHeading |-> H_Names, Information |-> <<Info("aspirin")>>],
      [TOCHeading |-> H_Names, Information |-> <<[Name |-> "Empty"]>>],
      [Description |-> "untitled"] }

InitialDocs ==
    { [Record |-> [RecordType |-> "CID", Section |-> <<>>]],
      [Record |-> [RecordType |-> "CID"]],
      [Fault  |-> [Code |-> "PUGVIEW.NotFound"]] }

SectionsOf(s) == IF "Section" \in DOMAIN s THEN s.Section ELSE <<>>

\* the section list with `leaf` attached as the last section, depth levels
\* below its last section
RECURSIVE AppendAt(_, _, _)
AppendAt(sections, depth, leaf) ==
    IF depth = 0 THEN Append(sections, leaf)
    ELSE LET n == Len(sections)
         IN  [sections EXCEPT ![n] =
                 DictSet(@, "Section", AppendAt(SectionsOf(@), depth - 1, leaf))]

\* how deep the last section's chain of last sections goes
RECURSIVE LastDepth(_)
LastDepth(sections) ==
    IF sections = <<>> THEN 0 ELSE 1 + LastDepth(SectionsOf(sections[Len(sections)]))

\* every section node of a section list, at any depth
RECURSIVE AllSections(_)
AllSections(sections) ==
    IF sections = <<>> THEN {}
    ELSE {Head(sections)} \cup AllSections(SectionsOf(Head(sections)))
                          \cup AllSections(Tail(sections))

RECURSIVE CountSections(_)
CountSections(sections) ==
    IF sections = <<>> THEN 0
    ELSE 1 + CountSections(SectionsOf(Head(sections))) + CountSections(Tail(sections))

TopSections(d) ==
    IF "Record" \in DOMAIN d /\ "Section" \in DOMAIN d.Record
    THEN d.Record.Section ELSE <<>>

ToxInit ==
    /\ mode = "tox"
    /\ pc = "call"
    /\ data \in InitialDocs
    /\ tox_data = EmptyDict

\* The server's document grows by one section (environment).
BuildSection ==
    /\ mode = "tox"
    /\ pc = "call"
    /\ "Record" \in DOMAIN data /\ "Section" \in DOMAIN data.Record
    /\ CountSections(data.Record.Section) < MaxSections
    /\ \E leaf \in LeafSections, depth \in 0..LastDepth(data.Record.Section) :
          data' = [data EXCEPT !.Record.Section = AppendAt(@, depth, leaf)]
    /\ UNCHANGED <<mode, pc, tox_data, fetchVars, ghsVars, pipeVars>>

\* tox_data = extract_tox_data(compound_data)
ExtractToxData ==
    /\ mode = "tox"
    /\ pc = "call"
    /\ pc' = "done"
    /\ tox_data' = extract_tox_data(data)
    /\ UNCHANGED <<mode, data, fetchVars, ghsVars, pipeVars>>

IdleFetch == call = Unset /\ outcome = Unset
IdleGhs   == text = <<>> /\ ghs = <<>>
IdlePipe  ==
    /\ cas_numbers = <<>> /\ task = <<>> /\ done_order = <<>> /\ main_pc = "idle"
    /\ batch_size = 0 /\ row_i = 0 /\ tasks = <<>> /\ results = <<>> /\ df = <<>>
    /\ batches = <<>> /\ pauses = <<>>
IdleTox   == data = Unset /\ tox_data = EmptyDict

ToxNext == BuildSection \/ ExtractToxData

InitTox == ToxInit /\ IdleFetch /\ IdleGhs /\ IdlePipe

SpecTox == InitTox /\ [][ToxNext]_vars

------------------------------------------------------------------------------
(* C1: every section node, at any depth, whose TOCHeading contains a        *)
(* keyword is a key of the result of extract_tox_data, also below sections  *)
(* that matched no keyword.                                                 *)
C1_EveryMatchingSectionIsAKey ==
    (mode = "tox" /\ pc = "done") =>
        \A s \in AllSections(TopSections(data)) :
            ("TOCHeading" \in DOMAIN s /\ MatchesKeyword(s.TOCHeading))
                => s.TOCHeading \in DOMAIN tox_data


------------------------------------------------------------------------------
(* One fetch-with-retry call against an arbitrary server *)

MaxRetries == 3

Statuses == {200, 404, 500, 503}

CidList(cids) == [json |-> [IdentifierList |-> [CID |-> cids]]]

JsonBodies ==
    { CidList(<<2244, 517180>>),
      CidList(<<>>),
      [json |-> [IdentifierList |-> [SID |-> <<7>>]]],
      [json |-> [Fault |-> [Code |-> "PUGREST.NotFound"]]],
      [garbage |-> TRUE] }

T_H302 == <<"H","3","0","2">>
T_H315 == <<"H","3","1","5">>
T_H319 == <<"H","3","1","9">>
T_P264 == <<"P","2","6","4">>
T_P270 == <<"P","2","7","0">>

GhsBodies ==
    { [text |-> T_H315 \o <<" ">> \o T_P264 \o <<" ">> \o T_H302],
      [text |-> NoDataFound],
      [garbage |-> TRUE] }

BodiesOf(fn) == IF fn = "get_ghs_classification" THEN GhsBodies ELSE JsonBodies

Responses(bodies) ==
    {[status |-> 200, body |-> b] : b \in bodies}
        \cup {[status |-> st] : st \in Statuses \ {200}}
        \cup {[exc |-> "ClientConnectionError"]}

RetryLoops == {"fetch_url", "cas_to_cid", "get_ghs_classification"}

Calls ==
    UNION { { [fn |-> fn, retries |-> n, delay |-> DefaultDelay, resps |-> rs] :
                rs \in [1..n -> Responses(BodiesOf(fn))] } :
            fn \in RetryLoops, n \in 1..MaxRetries }
    \cup { [fn |-> "get_pubchem_cid", retries |-> DefaultRetries,
            delay |-> DefaultDelay, resps |-> rs] :
                rs \in [1..DefaultRetries -> Responses(JsonBodies)] }

FetchInit ==
    /\ mode = "fetch"
    /\ pc = "call"
    /\ call \in Calls
    /\ outcome = Unset

\* The call runs to its return (or raise).
RunCall ==
    /\ mode = "fetch"
    /\ pc = "call"
    /\ pc' = "done"
    /\ outcome' =
         CASE call.fn = "fetch_url" -> fetch_url(call.resps, call.retries)
           [] call.fn = "get_pubchem_cid" -> get_pubchem_cid(call.resps)
           [] call.fn = "cas_to_cid" -> cas_to_cid(call.resps, call.retries, call.delay)
           [] call.fn = "get_ghs_classification" ->
                  get_ghs_classification(call.resps, call.retries, call.delay)
    /\ UNCHANGED <<mode, call, toxVars, ghsVars, pipeVars>>

FetchNext == RunCall

InitFetch == FetchInit /\ IdleTox /\ IdleGhs /\ IdlePipe

SpecFetch == InitFetch /\ [][FetchNext]_vars

Ran(fn) == mode = "fetch" /\ pc = "done" /\ call.fn = fn

\* the k-th GET was answered with an HTTP status outside `handled`
OtherStatusAt(k, handled) ==
    /\ ~IsExc(call.resps[k])
    /\ call.resps[k].status \notin handled

------------------------------------------------------------------------------
(* C2: fetch_url returns the parsed document or an error marker, never no  *)
(* value, also when every attempt of the budget was answered with 503.     *)
C2_FetchUrlAlwaysReturnsDocOrError ==
    Ran("fetch_url") => outcome.ret # None

------------------------------------------------------------------------------
(* C3, as stated: in fetch_url, cas_to_cid and get_ghs_classification the  *)
(* sleep after the N-th failed attempt lasts 2^(N-1) seconds, and a call   *)
(* issues at most `retries` GETs.                                          *)
C3_AllLoopsBackOffExponentially ==
    \A fn \in RetryLoops :
        Ran(fn) =>
            /\ outcome.gets <= call.retries
            /\ \A n \in 1..Len(outcome.sleeps) : outcome.sleeps[n] = Pow2(n - 1)

(* C3, amended: fetch_url sleeps 2^(N-1) seconds after its N-th failed     *)
(* attempt; cas_to_cid and get_ghs_classification sleep the fixed `delay`  *)
(* after every failed attempt; each sleep follows an attempt and no call   *)
(* issues more than `retries` GETs.                                        *)
C3_BackoffPerPipeline ==
    \A fn \in RetryLoops :
        Ran(fn) =>
            /\ outcome.gets <= call.retries
            /\ Len(outcome.sleeps) <= outcome.gets
            /\ \A n \in 1..Len(outcome.sleeps) :
                  outcome.sleeps[n] = IF fn = "fetch_url" THEN Pow2(n - 1) ELSE call.delay

C3_Witness ==
    /\ Ran("cas_to_cid")
    /\ call.retries = 3
    /\ outcome.sleeps = <<DefaultDelay, DefaultDelay, DefaultDelay>>
    /\ call.resps[1] = [status |-> 503]
    /\ IsExc(call.resps[2])

------------------------------------------------------------------------------
(* C4, as stated: in every loop a status that is neither 200 nor 503 (nor  *)
(* 404 in pipeline B) ends the call at once: no further GET, no sleep.     *)
C4_OtherStatusEndsEveryLoop ==
    \A fn \in RetryLoops :
        Ran(fn) =>
            \A k \in 1..outcome.gets :
                OtherStatusAt(k, IF fn = "fetch_url" THEN {200, 503} ELSE {200, 503, 404})
                    => outcome.gets = k /\ Len(outcome.sleeps) = k - 1

(* C4, amended: in fetch_url such a status ends the call at once with the  *)
(* error marker 'HTTP error <status>'.  In cas_to_cid and                   *)
(* get_ghs_classification a status other than 200 and 404 is retried like  *)
(* a 503: the call sleeps `delay`, issues the next GET while the budget    *)
(* lasts, and when the budget ends on such a status it returns None,       *)
(* respectively ("", "").                                                  *)
C4_OtherStatusPerPipeline ==
    /\ Ran("fetch_url") =>
          \A k \in 1..outcome.gets :
              OtherStatusAt(k, {200, 503}) =>
                  /\ outcome.gets = k
                  /\ Len(outcome.sleeps) = k - 1
                  /\ outcome.ret = [error |-> HttpErrorText(call.resps[k].status)]
    /\ \A fn \in {"cas_to_cid", "get_ghs_classification"} :
          Ran(fn) =>
              \A k \in 1..outcome.gets :
                  OtherStatusAt(k, {200, 404}) =>
                      /\ Len(outcome.sleeps) >= k
                      /\ outcome.sleeps[k] = call.delay
                      /\ k < call.retries => outcome.gets > k
                      /\ k = call.retries =>
                            outcome.ret = IF fn = "cas_to_cid" THEN None
                                          ELSE << <<>>, <<>> >>

C4_Witness ==
    /\ Ran("get_ghs_classification")
    /\ call.retries = 3
    /\ call.resps[1] = [status |-> 500]
    /\ outcome.gets = 2
    /\ outcome.sleeps = <<DefaultDelay>>
    /\ outcome.ret = <<NoDataFound, NoDataFound>>

------------------------------------------------------------------------------
(* C8: the resolver returns the first element of the CID list on success   *)
(* and None, without raising, when the IdentifierList/CID path is missing, *)
(* the CID list is empty or the fetch returned an error.                   *)
C8_ResolverReturnsFirstCidOrNone ==
    /\ Ran("get_pubchem_cid") =>
          LET d == fetch_url(call.resps, DefaultRetries).ret
          IN  d # None =>
                /\ ~outcome.ret.raised
                /\ outcome.ret.val =
                     IF "IdentifierList" \in DOMAIN d
                        /\ "CID" \in DOMAIN d.IdentifierList
                        /\ d.IdentifierList.CID # <<>>
                     THEN PyInt(d.IdentifierList.CID[1])
                     ELSE None
    /\ Ran("cas_to_cid") =>
          \/ outcome.ret = None
          \/ \E k \in 1..outcome.gets :
                /\ call.resps[k] \in {[status |-> 200, body |-> b] : b \in JsonBodies}
                /\ "json" \in DOMAIN call.resps[k].body
                /\ "IdentifierList" \in DOMAIN call.resps[k].body.json
                /\ "CID" \in DOMAIN call.resps[k].body.json.IdentifierList
                /\ call.resps[k].body.json.IdentifierList.CID # <<>>
                /\ outcome.ret = PyInt(call.resps[k].body.json.IdentifierList.CID[1])


------------------------------------------------------------------------------
(* The text of a 200 answer to the GHS request: any run of fragments, and   *)
(* the body 'H302 H315 H319 P264 P270' twice over.                          *)

MaxFragments == 3

Fragments ==
    { T_H302, T_H315, T_P264, <<" ">>, <<"H","3">>, <<"0","2">>,
      NoDataFound, <<"N","o"," ","d","a","t","a">>, <<" ","f","o","u","n","d">> }

ExampleLine ==
    Concat(<<T_H302, <<" ">>, T_H315, <<" ">>, T_H319, <<" ">>, T_P264, <<" ">>, T_P270>>)

ExampleBody == ExampleLine \o <<" ">> \o ExampleLine

GhsTexts ==
    { Concat(fs) : fs \in UNION { [1..n -> Fragments] : n \in 0..MaxFragments } }
        \cup {ExampleBody}

GhsInit ==
    /\ mode = "ghs"
    /\ pc = "call"
    /\ text \in GhsTexts
    /\ ghs = <<>>

\* lines 41-47 of get_ghs_classification, the status being 200
ExtractGhs ==
    /\ mode = "ghs"
    /\ pc = "call"
    /\ pc' = "done"
    /\ ghs' = GhsOfText(text)
    /\ UNCHANGED <<mode, text, toxVars, fetchVars, pipeVars>>

GhsNext == ExtractGhs

InitGhs == GhsInit /\ IdleTox /\ IdleFetch /\ IdlePipe

SpecGhs == InitGhs /\ [][GhsNext]_vars

\* the substrings of txt that are `letter` followed by three digits
CodesIn(letter, txt) ==
    { SubSeq(txt, i, i + 3) : i \in { j \in 1..(Len(txt) - 3) :
          /\ txt[j] = letter
          /\ \A d \in 1..3 : \E n \in 1..10 : Digits[n] = txt[j + d] } }

\* out is the codes, each once, in ascending order, separated by commas
IsAscendingJoin(out, codes) ==
    LET n == Cardinality(codes)
    IN  /\ Len(out) = IF n = 0 THEN 0 ELSE 5 * n - 1
        /\ \A i \in 1..n : SubSeq(out, 5 * i - 4, 5 * i - 1) \in codes
        /\ \A i \in 1..(n - 1) :
              /\ out[5 * i] = ","
              /\ StrLess(SubSeq(out, 5 * i - 4, 5 * i - 1), SubSeq(out, 5 * i + 1, 5 * i + 4))

------------------------------------------------------------------------------
(* C10: on a 200 response, a body containing 'No data found' gives that    *)
(* sentinel for both outputs; any other body gives the distinct H### codes *)
(* of the body in ascending order joined by commas, and likewise the P###  *)
(* codes.                                                                  *)
C10_GhsCodesSortedDistinct ==
    (mode = "ghs" /\ pc = "done") =>
        /\ Contains(text, NoDataFound) => ghs = <<NoDataFound, NoDataFound>>
        /\ ~Contains(text, NoDataFound) =>
              /\ IsAscendingJoin(ghs[1], CodesIn("H", text))
              /\ IsAscendingJoin(ghs[2], CodesIn("P", text))
        /\ text = ExampleBody =>
              ghs = << Concat(<<T_H302, <<",">>, T_H315, <<",">>, T_H319>>),
                       Concat(<<T_P264, <<",">>, T_P270>>) >>

C10_Witness ==
    /\ mode = "ghs"
    /\ pc = "done"
    /\ text = T_H315 \o T_H302 \o T_H315
    /\ ghs = << T_H302 \o <<",">> \o T_H315, <<>> >>


------------------------------------------------------------------------------
(* The two programs, run against an arbitrary server.                       *)
(* A coroutine advances from one awaited call to the next in one step; the  *)
(* event loop may pick any coroutine that is ready.  The server's answers   *)
(* to the GETs of one call are a script: the same answer every time, or one *)
(* 503 and then that answer.                                                *)

MaxCas   == 2
MaxRows  == 4
MaxBatch == 3

CasPool == <<"50-78-2", "64-17-5", "71-43-2", "67-56-1", "108-88-3", "7732-18-5">>

NameSections ==
    << [TOCHeading |-> H_ComputedDescriptors,
        Information |-> << [Name |-> "IUPAC Name",
                            Value |-> [StringWithMarkup |->
                                         <<[String |-> "2-acetyloxybenzoic acid"]>>]] >>],
       [TOCHeading |-> H_Synonyms,
        Information |-> << [Name |-> "Synonym",
                            Value |-> [StringWithMarkup |->
                                         <<[String |-> "aspirin"],
                                           [String |-> "50-78-2"]>>]] >>] >>

FullDoc ==
    [Record |-> [RecordType |-> "CID", Section |->
        << [TOCHeading |-> H_NamesAndIdentifiers, Section |-> NameSections],
           [TOCHeading |-> H_Toxicity, Information |-> <<Info("LD50")>>,
            Section |-> <<[TOCHeading |-> H_Hazards]>>],
           [TOCHeading |-> H_OtherSafetyInfo, Information |-> <<Info("PMID 1")>>] >>]]

ViewBodies ==
    { [json |-> FullDoc],
      [json |-> [Fault |-> [Code |-> "PUGVIEW.NotFound"]]],
      [garbage |-> TRUE] }

PropertyBodies ==
    { [json |-> [PropertyTable |-> [Properties |->
          <<[IUPACName |-> "2-acetyloxybenzoic acid",
             CanonicalSMILES |-> "CC(=O)OC1=CC=CC=C1C(=O)O"]>>]]],
      [json |-> [PropertyTable |-> [Properties |-> <<>>]]],
      [json |-> [Fault |-> [Code |-> "PUGREST.NotFound"]]] }

Scripts(bodies) ==
    { [k \in 1..DefaultRetries |-> r] : r \in Responses(bodies) }
        \cup { [k \in 1..DefaultRetries |-> IF k = 1 THEN [status |-> 503] ELSE r] :
                  r \in Responses(bodies) }

\* `return rec`: the coroutine is over and its locals are gone; what it
\* fetched, and the cid and compound_data it got, are kept as its history
\* What each awaited call of process_cas_number can come back with, over
\* the scripts of its endpoint
CidResults      == { get_pubchem_cid(script).ret : script \in Scripts(JsonBodies) }
ViewResults     == { fetch_url(script, DefaultRetries).ret : script \in Scripts(ViewBodies) }
\* The three enrichment calls (property table, names, references) are
\* answered with a document, at once or after one 503, or with 503
\* throughout; the view URL then serves the full record.
EnrichmentScripts(bodies) ==
    { script \in Scripts(bodies) : \A k \in 1..DefaultRetries :
          ~IsExc(script[k]) /\ script[k].status \in {200, 503} }

PropertyResults ==
    { fetch_url(script, DefaultRetries).ret : script \in EnrichmentScripts(PropertyBodies) }
NamesResults ==
    { fetch_url(script, DefaultRetries).ret : script \in EnrichmentScripts({[json |-> FullDoc]}) }

Finish(t, rec) ==
    [t EXCEPT !.pc = "done", !.result = rec, !.iupac_smiles = None,
              !.names_and_synonyms = None, !.literature_references = None]

Finished(t) == t.pc \in {"done", "raised"}

\* what completes, in order, once coroutine i has taken its step
Completion(order, i, t) == IF Finished(t) THEN Append(order, i) ELSE order

\* Variant: the results in completion order, as asyncio.as_completed gives
Gather_AsCompleted(coros, order) == [k \in 1..Len(coros) |-> coros[order[k]].result]

\* asyncio.gather(*coros): the results in the order of the coroutines
\* passed, however they completed (`order`)
Gather(coros, order) == [k \in 1..Len(coros) |-> coros[k].result]

\* gather(...) without return_exceptions: an exception of a coroutine is
\* raised in the awaiting caller
GatherRaises(coros) == \E k \in 1..Len(coros) : coros[k].pc = "raised"

------------------------------------------------------------------------------
(* Pipeline A   src/get_toxinfo_by_cas6.py:122-168 *)

ProcessingErrorText(exc) ==
    CASE exc = "TypeError"  -> "Processing error: TypeError"
      [] exc = "IndexError" -> "Processing error: IndexError"
      [] OTHER              -> "Processing error"

\* Variant: no try/except: the exception leaves the coroutine
ProcessCasExcept_Missing(t, cas, exc) == [t EXCEPT !.pc = "raised", !.result = Raised(exc)]

\* lines 161-163: `except Exception` around the whole body
ProcessCasExcept(t, cas, exc) ==
    Finish(t, [CAS |-> cas, error |-> ProcessingErrorText(exc)])

\* Variant: the early return of lines 131-132 never taken
HasErrorKey_Never(compound_data) == FALSE

\* line 131
HasErrorKey(compound_data) == "error" \in DOMAIN compound_data

NewTaskA ==
    [pc |-> "cid", cid |-> None, compound_data |-> None, iupac_smiles |-> None,
     names_and_synonyms |-> None, literature_references |-> None,
     fetched |-> <<>>, result |-> None]

\* lines 138-160, once the three enrichment calls have returned
FinalRecord(cas, t) ==
    LET common == [CAS |-> cas, PubChemCID |-> t.cid.int,
                   IUPAC |-> t.iupac_smiles.IUPAC, SMILES |-> t.iupac_smiles.SMILES,
                   Names |-> t.names_and_synonyms.Names,
                   Synonyms |-> t.names_and_synonyms.Synonyms,
                   LiteratureReferences |-> t.literature_references]
    IN  IF "Record" \notin DOMAIN t.compound_data
        THEN DictSet(common, "error", "Could not find compound data")
        ELSE DictSet(common, "ToxData", extract_tox_data(t.compound_data))

PipeInit ==
    /\ mode \in {"A", "B"}
    /\ pc = "call"
    /\ main_pc = "start"
    /\ \E n \in 1..(IF mode = "A" THEN MaxCas ELSE MaxRows) :
          IF mode = "A"
          THEN cas_numbers = SubSeq(CasPool, 1, n)
          ELSE cas_numbers \in [1..n -> {CasPool[1], ""}]
    /\ batch_size \in (IF mode = "A" THEN {0} ELSE 1..MaxBatch)
    /\ task = <<>> /\ done_order = <<>> /\ row_i = 0 /\ tasks = <<>>
    /\ results = <<>> /\ df = <<>> /\ batches = <<>> /\ pauses = <<>>

\* lines 166-168: the coroutines are created and handed to gather
A_Launch ==
    /\ mode = "A" /\ main_pc = "start"
    /\ task' = [i \in 1..Len(cas_numbers) |-> NewTaskA]
    /\ main_pc' = "gather"
    /\ UNCHANGED <<mode, pc, toxVars, fetchVars, ghsVars, cas_numbers, done_order,
                   batch_size, row_i, tasks, results, df, batches, pauses>>

StepA(i, t) ==
    /\ task' = [task EXCEPT ![i] = t]
    /\ done_order' = Completion(done_order, i, t)
    /\ UNCHANGED <<mode, pc, toxVars, fetchVars, ghsVars, cas_numbers, main_pc,
                   batch_size, row_i, tasks, results, df, batches, pauses>>

\* lines 125-129
A_GetCid(i) ==
    /\ mode = "A" /\ main_pc = "gather" /\ task[i].pc = "cid"
    /\ \E r \in CidResults :
          LET t0 == [task[i] EXCEPT !.fetched = Append(@, "cids")]
          IN  StepA(i, IF r.raised THEN ProcessCasExcept(t0, cas_numbers[i], r.exc)
                       ELSE IF r.val = None
                       THEN Finish(t0, [CAS |-> cas_numbers[i],
                                        error |-> "Could not find PubChem CID"])
                       ELSE [t0 EXCEPT !.cid = r.val, !.pc = "compound"])

\* lines 130-132
A_GetCompoundData(i) ==
    /\ mode = "A" /\ main_pc = "gather" /\ task[i].pc = "compound"
    /\ \E d \in ViewResults :
          LET t0 == [task[i] EXCEPT !.fetched = Append(@, "view"), !.compound_data = d]
          IN  StepA(i, IF d = None   \* `'error' in None`
                       THEN ProcessCasExcept(t0, cas_numbers[i], "TypeError")
                       ELSE IF HasErrorKey(d)
                       THEN Finish(t0, [CAS |-> cas_numbers[i], PubChemCID |-> t0.cid.int,
                                        error |-> d.error])
                       ELSE [t0 EXCEPT !.pc = "iupac"])

\* line 134
A_GetIupacAndSmiles(i) ==
    /\ mode = "A" /\ main_pc = "gather" /\ task[i].pc = "iupac"
    /\ \E d \in PropertyResults :
          LET r  == IupacAndSmilesOf(d)
              t0 == [task[i] EXCEPT !.fetched = Append(@, "property")]
          IN  StepA(i, IF r.raised THEN ProcessCasExcept(t0, cas_numbers[i], r.exc)
                       ELSE [t0 EXCEPT !.iupac_smiles = r.val, !.pc = "names"])

\* line 135
A_GetNamesAndSynonyms(i) ==
    /\ mode = "A" /\ main_pc = "gather" /\ task[i].pc = "names"
    /\ \E d \in NamesResults :
          LET r  == NamesAndSynonymsOf(d)
              t0 == [task[i] EXCEPT !.fetched = Append(@, "view")]
          IN  StepA(i, IF r.raised THEN ProcessCasExcept(t0, cas_numbers[i], r.exc)
                       ELSE [t0 EXCEPT !.names_and_synonyms = r.val, !.pc = "references"])

\* lines 136-160
A_GetLiteratureReferences(i) ==
    /\ mode = "A" /\ main_pc = "gather" /\ task[i].pc = "references"
    /\ \E d \in NamesResults :
          LET r  == LiteratureReferencesOf(d)
              t0 == [task[i] EXCEPT !.fetched = Append(@, "view")]
          IN  StepA(i, IF r.raised THEN ProcessCasExcept(t0, cas_numbers[i], r.exc)
                       ELSE LET t1 == [t0 EXCEPT !.literature_references = r.val]
                            IN  Finish(t1, FinalRecord(cas_numbers[i], t1)))

\* line 168: gather returns once every coroutine has finished
A_GatherReturns ==
    /\ mode = "A" /\ main_pc = "gather"
    /\ \A i \in 1..Len(task) : Finished(task[i])
    /\ IF GatherRaises(task)
       THEN main_pc' = "aborted" /\ results' = results
       ELSE main_pc' = "done" /\ results' = Gather(task, done_order)
    /\ UNCHANGED <<mode, pc, toxVars, fetchVars, ghsVars, cas_numbers, task, done_order,
                   batch_size, row_i, tasks, df, batches, pauses>>

NextA ==
    \/ A_Launch
    \/ \E i \in 1..Len(task) :
          \/ A_GetCid(i)
          \/ A_GetCompoundData(i)
          \/ A_GetIupacAndSmiles(i)
          \/ A_GetNamesAndSynonyms(i)
          \/ A_GetLiteratureReferences(i)
    \/ A_GatherReturns



------------------------------------------------------------------------------
(* Pipeline B   src/pubchem_hazard_scraper.py:58-102 *)

CidResultsB ==
    { cas_to_cid(script, DefaultRetries, DefaultDelay).ret : script \in Scripts(JsonBodies) }
GhsResults ==
    { get_ghs_classification(script, DefaultRetries, DefaultDelay).ret :
          script \in Scripts(GhsBodies) }

\* `if cid:`
Truthy(cid) == cid # None /\ cid.int # 0

\* `not cas or pd.isna(cas)`: an empty cell of the CAS column
NoCas(cas) == cas = ""

\* a row's coroutine: not yet created ("absent"), created by process_row(...)
\* but not yet started, awaiting cas_to_cid, awaiting get_ghs_classification,
\* or returned
NewTaskB == [pc |-> "absent", cid |-> None, result |-> <<>>]

\* Variant: `>` for `>=`
BatchFull_OffByOne(ts, size) == Len(ts) > size

\* line 86
BatchFull(ts, size) == Len(ts) >= size

\* the coroutines main passes to gather, and the order they completed in,
\* as positions of that list
Batch(ts) == [k \in 1..Len(ts) |-> task[ts[k]]]

BatchOrder(ts, order) ==
    LET mine == SelectSeq(order, LAMBDA r : \E k \in 1..Len(ts) : ts[k] = r)
    IN  [k \in 1..Len(mine) |-> CHOOSE j \in 1..Len(ts) : ts[j] = mine[k]]

\* lines 97-99
RECURSIVE WriteResults(_, _)
WriteResults(table, res) ==
    IF res = <<>> THEN table
    ELSE LET r == Head(res)
         IN  WriteResults([table EXCEPT ![r[1]] = [Hazards |-> r[2], Precautions |-> r[3]]],
                          Tail(res))

\* `return idx, hazards, precautions`
Finish2(t, res) == [t EXCEPT !.pc = "done", !.result = res]

\* lines 75-81
B_ReadCsv ==
    /\ mode = "B" /\ main_pc = "start"
    /\ df' = [i \in 1..Len(cas_numbers) |-> [Hazards |-> <<>>, Precautions |-> <<>>]]
    /\ task' = [i \in 1..Len(cas_numbers) |-> NewTaskB]
    /\ main_pc' = "loop"
    /\ UNCHANGED <<mode, pc, toxVars, fetchVars, ghsVars, cas_numbers, done_order,
                   batch_size, row_i, tasks, results, batches, pauses>>

\* lines 83-86: the next row's coroutine is created and joins the batch
B_NextRow ==
    /\ mode = "B" /\ main_pc = "loop" /\ row_i < Len(cas_numbers)
    /\ row_i' = row_i + 1
    /\ tasks' = Append(tasks, row_i + 1)
    /\ task' = [task EXCEPT ![row_i + 1].pc = "created"]
    /\ main_pc' = IF BatchFull(tasks', batch_size) THEN "gather" ELSE "loop"
    /\ UNCHANGED <<mode, pc, toxVars, fetchVars, ghsVars, cas_numbers, done_order,
                   batch_size, results, df, batches, pauses>>

\* line 93: the rows are used up
B_RowsDone ==
    /\ mode = "B" /\ main_pc = "loop" /\ row_i = Len(cas_numbers)
    /\ main_pc' = IF tasks # <<>> THEN "final_gather" ELSE "write"
    /\ UNCHANGED <<mode, pc, toxVars, fetchVars, ghsVars, cas_numbers, task, done_order,
                   batch_size, row_i, tasks, results, df, batches, pauses>>

StepB(i, t) ==
    /\ task' = [task EXCEPT ![i] = t]
    /\ done_order' = Completion(done_order, i, t)
    /\ UNCHANGED <<mode, pc, toxVars, fetchVars, ghsVars, cas_numbers, main_pc,
                   batch_size, row_i, tasks, results, df, batches, pauses>>

Awaited(i) ==
    /\ mode = "B" /\ main_pc \in {"gather", "final_gather"}
    /\ \E k \in 1..Len(tasks) : tasks[k] = i

\* lines 59-63: gather starts the coroutine, which runs to its first await
B_RowStarts(i) ==
    /\ Awaited(i) /\ task[i].pc = "created"
    /\ StepB(i, IF NoCas(cas_numbers[i])
                THEN Finish2(task[i], <<i, <<>>, <<>> >>)
                ELSE [task[i] EXCEPT !.pc = "cid"])

\* lines 63-64, 68-70
B_CasToCid(i) ==
    /\ Awaited(i) /\ task[i].pc = "cid"
    /\ \E cid \in CidResultsB :
          StepB(i, IF Truthy(cid)
                   THEN [task[i] EXCEPT !.cid = cid, !.pc = "ghs"]
                   ELSE Finish2(task[i], <<i, NoDataFound, NoDataFound>>))

\* lines 65-67
B_GetGhs(i) ==
    /\ Awaited(i) /\ task[i].pc = "ghs"
    /\ \E hp \in GhsResults :
          StepB(i, Finish2(task[i], <<i, hp[1], hp[2]>>))

\* lines 87-90: the batch is complete; main goes to sleep
B_GatherReturns ==
    /\ mode = "B" /\ main_pc = "gather"
    /\ \A k \in 1..Len(tasks) : Finished(task[tasks[k]])
    /\ results' = results \o Gather(Batch(tasks), BatchOrder(tasks, done_order))
    /\ batches' = Append(batches, Len(tasks))
    /\ tasks' = <<>>
    /\ main_pc' = "sleep"
    /\ UNCHANGED <<mode, pc, toxVars, fetchVars, ghsVars, cas_numbers, task, done_order,
                   batch_size, row_i, df, pauses>>

\* line 91: asyncio.sleep(pause) is over
B_PauseOver ==
    /\ mode = "B" /\ main_pc = "sleep"
    /\ pauses' = Append(pauses, Len(batches))
    /\ main_pc' = "loop"
    /\ UNCHANGED <<mode, pc, toxVars, fetchVars, ghsVars, cas_numbers, task, done_order,
                   batch_size, row_i, tasks, results, df, batches>>

\* lines 93-95: the last, partial batch
B_FinalGatherReturns ==
    /\ mode = "B" /\ main_pc = "final_gather"
    /\ \A k \in 1..Len(tasks) : Finished(task[tasks[k]])
    /\ results' = results \o Gather(Batch(tasks), BatchOrder(tasks, done_order))
    /\ batches' = Append(batches, Len(tasks))
    /\ main_pc' = "write"
    /\ UNCHANGED <<mode, pc, toxVars, fetchVars, ghsVars, cas_numbers, task, done_order,
                   batch_size, row_i, tasks, df, pauses>>

\* lines 97-102: the table is filled in and written
B_WriteCsv ==
    /\ mode = "B" /\ main_pc = "write"
    /\ df' = WriteResults(df, results)
    /\ main_pc' = "done"
    /\ UNCHANGED <<mode, pc, toxVars, fetchVars, ghsVars, cas_numbers, task, done_order,
                   batch_size, row_i, tasks, results, batches, pauses>>

NextB ==
    \/ B_ReadCsv
    \/ B_NextRow
    \/ B_RowsDone
    \/ \E i \in 1..Len(task) :
          \/ B_RowStarts(i)
          \/ B_CasToCid(i)
          \/ B_GetGhs(i)
    \/ B_GatherReturns
    \/ B_PauseOver
    \/ B_FinalGatherReturns
    \/ B_WriteCsv

Init == PipeInit /\ IdleTox /\ IdleFetch /\ IdleGhs

Next == NextA \/ NextB

Spec == Init /\ [][Next]_vars


------------------------------------------------------------------------------
(* C5: the batch orchestrators preserve input order whatever the order of   *)
(* completion: in pipeline A the i-th record returned is the one            *)
(* process_cas_number produced for the i-th identifier and carries it as    *)
(* 'CAS'; in pipeline B row i of the table gets the Hazards / Precautions   *)
(* process_row computed for row i.                                          *)
C5_InputOrderPreserved ==
    /\ (mode = "A" /\ main_pc = "done") =>
          /\ Len(results) = Len(cas_numbers)
          /\ \A i \in 1..Len(cas_numbers) :
                /\ results[i] = task[i].result
                /\ results[i].CAS = cas_numbers[i]
    /\ (mode = "B" /\ main_pc = "done") =>
          \A i \in 1..Len(cas_numbers) :
              df[i] = [Hazards |-> task[i].result[2], Precautions |-> task[i].result[3]]

C5_Witness ==
    /\ mode = "A" /\ main_pc = "done"
    /\ done_order = <<2, 1>>
    /\ "ToxData" \in DOMAIN results[1]
    /\ "error" \in DOMAIN results[2]

------------------------------------------------------------------------------
(* C6: pipeline B runs n rows in consecutive batches of exactly batch_size  *)
(* rows and one final batch of the n mod batch_size remaining rows, if any; *)
(* no row starts before every row of the batches before it has finished and *)
(* the pauses after them have elapsed, so at most batch_size rows are in    *)
(* flight; a pause follows every batch that reached batch_size and none     *)
(* follows a final partial batch.                                           *)
InFlight == {i \in 1..Len(task) : task[i].pc \in {"cid", "ghs"}}

C6_BatchesAndPauses ==
    mode = "B" =>
        LET n == Len(cas_numbers)
            b == batch_size
        IN  /\ Cardinality(InFlight) <= b
            /\ \A k \in 1..Len(batches) :
                  \/ batches[k] = b
                  \/ /\ k = Len(batches) /\ main_pc \in {"write", "done"}
                     /\ n % b # 0 /\ batches[k] = n % b
            /\ \A k \in 1..Len(pauses) : pauses[k] = k /\ batches[k] = b
            /\ main_pc = "sleep" => batches[Len(batches)] = b /\ Len(pauses) = Len(batches) - 1
            /\ \A i \in 1..Len(task) :
                  task[i].pc \in {"cid", "ghs", "done"} =>
                      /\ Len(pauses) >= (i - 1) \div b
                      /\ \A j \in 1..(((i - 1) \div b) * b) : task[j].pc = "done"
            /\ main_pc = "done" =>
                  /\ Len(batches) = (n \div b) + (IF n % b # 0 THEN 1 ELSE 0)
                  /\ Len(pauses) = n \div b

C6_Witness ==
    /\ mode = "B" /\ main_pc = "done"
    /\ Len(cas_numbers) = 4 /\ batch_size = 3
    /\ batches = <<3, 1>>
    /\ pauses = <<1>>

------------------------------------------------------------------------------
(* C7: errors are contained per identifier: whatever the server answers,    *)
(* no exception leaves a coroutine, the run goes on until it is complete,   *)
(* and it then holds exactly one record (pipeline A) or one Hazards /       *)
(* Precautions pair (pipeline B) per input identifier, each the one its own *)
(* coroutine produced.                                                      *)
C7_ErrorsContained ==
    mode \in {"A", "B"} =>
        /\ main_pc # "aborted"
        /\ main_pc = "done" \/ ENABLED Next
        /\ \A i \in 1..Len(task) : task[i].pc # "raised"
        /\ (mode = "A" /\ main_pc = "done") =>
              /\ Len(results) = Len(cas_numbers)
              /\ \A i \in 1..Len(cas_numbers) :
                    /\ task[i].pc = "done"
                    /\ results[i] = task[i].result
                    /\ "CAS" \in DOMAIN results[i] /\ results[i].CAS = cas_numbers[i]
        /\ (mode = "B" /\ main_pc = "done") =>
              /\ Len(results) = Len(cas_numbers)
              /\ DOMAIN df = 1..Len(cas_numbers)
              /\ \A i \in 1..Len(cas_numbers) :
                    /\ task[i].pc = "done"
                    /\ df[i] = [Hazards |-> task[i].result[2],
                                Precautions |-> task[i].result[3]]

C7_Witness ==
    /\ mode = "A" /\ main_pc = "done"
    /\ Len(results) = 2
    /\ "error" \in DOMAIN results[1]
    /\ results[1].error = "Processing error: IndexError"
    /\ "ToxData" \in DOMAIN results[2]

------------------------------------------------------------------------------
(* C9: in pipeline A a record never carries both 'error' and 'ToxData';     *)
(* when CID resolution fails, or the full-record fetch returns an error     *)
(* marker, the record is an error record without ToxData and no further     *)
(* request is issued for that identifier.                                   *)
C9_ErrorRecordsAreTerminal ==
    mode = "A" =>
        \A i \in 1..Len(task) :
            LET t == task[i]
            IN  /\ t.pc = "done" =>
                      ~("error" \in DOMAIN t.result /\ "ToxData" \in DOMAIN t.result)
                /\ (t.pc # "cid" /\ t.cid = None) =>
                      /\ t.pc = "done"
                      /\ "error" \in DOMAIN t.result /\ "ToxData" \notin DOMAIN t.result
                      /\ t.fetched = <<"cids">>
                /\ "error" \in DOMAIN t.compound_data =>
                      /\ t.pc = "done"
                      /\ "error" \in DOMAIN t.result /\ "ToxData" \notin DOMAIN t.result
                      /\ t.result.error = t.compound_data.error
                      /\ t.fetched = <<"cids", "view">>

C9_Witness ==
    /\ mode = "A"
    /\ Len(task) = 2
    /\ task[1].pc = "done"
    /\ task[1].fetched = <<"cids", "view">>
    /\ "error" \in DOMAIN task[1].result
    /\ task[1].result.error = "HTTP error 404"
    /\ task[2].pc = "done"
    /\ "ToxData" \in DOMAIN task[2].result

=============================================================================
